---- MODULE Spec2Model ----
(***************************************************************************)
(* A model of the notebooks of IBM-Quantum-QCE20-Tutorials.                *)
(*                                                                         *)
(*   Hardware/Exercise 1 - Measuring Relaxation in Qubits.ipynb            *)
(*     lines   1..445 : the T1 (inversion recovery) exercise               *)
(*     lines 447..1085: the quantum optimisation session (MaxCut, QUBO,    *)
(*                      Ising Hamiltonian)                                 *)
(*   QCVV/Session 2.ipynb : randomized benchmarking                        *)
(*                                                                         *)
(* Five specifications are given:                                          *)
(*   SpecCalc : calc_prob1 applied to every bounded counts dictionary      *)
(*   SpecT1   : the cells of the T1 exercise, from Chip.load to the end    *)
(*              of the fit loop, and a later reload of the chip record     *)
(*   SpecQP   : the cells of the optimisation session                      *)
(*   SpecRB   : the generation of a randomized benchmarking design         *)
(*   SpecEx   : the execution of the design, seed by seed, and the error   *)
(*              per Clifford of the fit                                    *)
(* The converters, to_ising and randomized_benchmarking_seq belong to the  *)
(* Qiskit SDK the notebooks call; they are modelled as the notebooks       *)
(* describe them at the cells that call them.                              *)
(***************************************************************************)
EXTENDS Integers, Sequences, FiniteSets, TLC

VARIABLES
    \* ---- calc_prob1 / extract_prob1_data locals
    counts,      \* the counts dictionary handed to calc_prob1
    prob_1,      \* what calc_prob1 returned: a float, an error, or None before the call
    \* ---- T1 exercise
    pc,          \* position in the notebook
    qubits,      \* len(chip.qubits)
    axs,         \* the shape [rows, cols] of the array plt.subplots returned
    qi,          \* position of the zip(chip.qubits, axs) iterator (0-based)
    exp,         \* position of `for exp in range(n_exps)` (0-based)
    prob_1s,     \* the array extract_prob1_data fills
    attrs,       \* qubit index -> its attrs record (only t1 is modelled)
    fit_calls,   \* the qubits fit_t1 has been called for, in order
    file,        \* the record stored in 'saved_chip_ex1.json'
    reloaded,    \* the chip a later Chip.load of the record returns
    delays,      \* np.linspace(min_delay, max_delay, n_exps), in seconds
    fit_function_calls,  \* the argument lists fit_function has been called with
    t1,          \* the first value fit_t1 returned last
    y_fit,       \* the second value fit_t1 returned last
    \* ---- optimisation session
    qp_pc,       \* position in the session
    mdl,         \* the DOcplex model
    qp,          \* the QuadraticProgram read from mdl
    qp_eq,       \* LinearEqualityToPenalty(penalty=1).convert(qp)
    direct_translation,  \* QuadraticProgramToQubo(penalty=10).convert(qp)
    H,           \* the operator named H: a list of weighted Pauli-Z products
    offset,      \* the offset to_ising returned
    psi,         \* the computational basis state last evaluated
    energy,      \* (~StateFn(H) @ psi).eval()
    raised,      \* the exception that ended the last cell, NoError when none did
    assignment,  \* the binary assignment x the programs of the session are compared at
    \* ---- randomized benchmarking
    rb_pc,       \* position in randomized_benchmarking_seq
    rb_pattern,  \* the number of qubits of the one pattern entry
    seed,        \* the seed whose sequence is being generated
    circ,        \* the Clifford elements appended so far
    elmnt,       \* the Clifford the elements appended so far compose to
    rb_circ,     \* the circuit last emitted: the elements, then the inverse
    \* ---- execution and fit of the RB sequences
    ex_pc,       \* position in the execute cell and the fit after it
    rb_circs,    \* per seed, the circuits of the design (their lengths)
    rb_seed,     \* the loop variable of enumerate(rb_circs)
    rb_circ_transpile,  \* the transpiled circuits of the current seed
    job,         \* the jobs handed to the backend whose result is not in yet
    result_list, \* the results appended so far
    transpile_list,     \* the transpiled circuit lists appended so far
    stdout,      \* the lines printed so far
    alpha,       \* the decay constant the fit returned
    epc          \* the error per Clifford derived from alpha

calcVars == <<counts, prob_1>>
t1Vars   == <<pc, qubits, axs, qi, exp, prob_1s, attrs, fit_calls,
              file, reloaded, delays, fit_function_calls, t1, y_fit>>
qpVars   == <<qp_pc, mdl, qp, qp_eq, direct_translation, H, offset, psi, energy, raised,
              assignment>>
rbVars   == <<rb_pc, rb_pattern, seed, circ, elmnt, rb_circ>>
exVars   == <<ex_pc, rb_circs, rb_seed, rb_circ_transpile, job, result_list,
              transpile_list, stdout, alpha, epc>>
vars     == <<counts, prob_1, pc, qubits, axs, qi, exp, prob_1s, attrs, fit_calls,
              file, reloaded, delays, fit_function_calls, t1, y_fit,
              ex_pc, rb_circs, rb_seed, rb_circ_transpile, job, result_list,
              transpile_list, stdout, alpha, epc,
              qp_pc, mdl, qp, qp_eq, direct_translation, H, offset, psi, energy, raised,
              assignment,
              rb_pc, rb_pattern, seed, circ, elmnt, rb_circ>>

(***************************************************************************)
(* Bounds of the model.                                                    *)
(***************************************************************************)
\* largest count stored under one key of a counts dictionary
MaxCount == 2
\* largest number of qubits a loaded chip holds
MaxQubits == 3
\* number of experiments (n_exps is 50 in the notebook)
NExps == 2
\* largest T1 (in the unit of the delays given) the curve fit returns
MaxT1 == 2
\* largest number of Cliffords in an RB sequence (the notebook's lengths go up to 49)
MaxLength == 3
\* number of seeds of an RB design (nSeeds is 10 and 5 in the notebook)
NSeeds == 2
\* number of elements of the two-qubit Clifford group (11520 elements) that a
\* two-qubit sequence samples over
MaxCliffords2 == 16

(***************************************************************************)
(* Numbers.  Python's true division yields a float; quotients of small     *)
(* integers are modelled exactly, as fractions in lowest terms.            *)
(***************************************************************************)
RECURSIVE GCD(_, _)
GCD(p, q) == IF q = 0 THEN p ELSE GCD(q, p % q)

Abs(k) == IF k < 0 THEN -k ELSE k

\* the float nu / de, de > 0
Frac(nu, de) ==
    LET g == GCD(Abs(nu), de)
    IN  [kind |-> "float", num |-> nu \div g, den |-> de \div g]

\* float arithmetic on such values
FAdd(u, v) == Frac(u.num * v.den + v.num * u.den, u.den * v.den)
FNeg(u) == Frac(-u.num, u.den)
FLeq(u, v) == u.num * v.den <= v.num * u.den

None == [kind |-> "None", num |-> 0, den |-> 1]
ZeroDivisionError == [kind |-> "ZeroDivisionError", num |-> 0, den |-> 1]

\* Python's a / b on non-negative integers
TrueDiv(p, q) == IF q = 0 THEN ZeroDivisionError ELSE Frac(p, q)

(***************************************************************************)
(* Counts dictionaries: bitstring -> number of occurrences.                *)
(***************************************************************************)
\* the keys a dictionary handed to calc_prob1 may hold: the two outcomes of
\* one qubit, and one key that is neither
Keys == {"0", "1", "10"}

CountsDicts == UNION {[D -> 0..MaxCount] : D \in SUBSET Keys}

\* the dictionaries marginal_counts returns for one qubit index
MarginalDicts == UNION {[D -> 0..MaxCount] : D \in SUBSET {"0", "1"}}

\* dict.get(key, default)
Get(d, key, default) == IF key \in DOMAIN d THEN d[key] ELSE default

\* calc_prob1 following its docstring ("the 1/0 state ratio")
calc_prob1_ratio(c) == TrueDiv(Get(c, "1", 0), Get(c, "0", 0))

\* calc_prob1 dividing by all the shots of the dictionary
RECURSIVE SumValues(_)
SumValues(d) ==
    IF DOMAIN d = {} THEN 0
    ELSE LET k == CHOOSE k \in DOMAIN d : TRUE
         IN  d[k] + SumValues([j \in DOMAIN d \ {k} |-> d[j]])

calc_prob1_shots(c) == TrueDiv(Get(c, "1", 0), SumValues(c))

\* calc_prob1(counts)
\* calc_prob1 with a guard the notebook does not have: no shot, probability 0
calc_prob1_guarded(c) ==
    IF Get(c, "0", 0) + Get(c, "1", 0) = 0
       THEN Frac(0, 1)
       ELSE TrueDiv(Get(c, "1", 0), Get(c, "0", 0) + Get(c, "1", 0))

calc_prob1(c) == TrueDiv(Get(c, "1", 0), Get(c, "0", 0) + Get(c, "1", 0))

(***************************************************************************)
(* The optimisation session: MaxCut on a graph of 5 nodes.                 *)
(***************************************************************************)
\* n = 5
n == 5
Nodes == 0..(n - 1)

\* edges: (i, j, weight); every weight is 1.0
edges == << <<0, 1, 1>>, <<0, 2, 1>>, <<0, 3, 1>>, <<1, 2, 1>>,
            <<2, 3, 1>>, <<2, 4, 1>>, <<3, 4, 1>> >>

\* b = 2, the right-hand side of the equality constraint
b == 2

\* the binary assignments of the n variables
Assignments == [Nodes -> {0, 1}]

\* sum of the function f over the finite set S
RECURSIVE SumOver(_, _)
SumOver(f, S) ==
    IF S = {} THEN 0
    ELSE LET k == CHOOSE k \in S : TRUE
         IN  f[k] + SumOver(f, S \ {k})

\* An expression of degree at most 2 in the variables: constant + sum of
\* linear[i] * x[i] + sum of quadratic[<<i, j>>] * x[i] * x[j].
ZeroExpr ==
    [constant |-> 0,
     linear |-> [i \in Nodes |-> 0],
     quadratic |-> [pr \in Nodes \X Nodes |-> 0]]

ExprAdd(e1, e2) ==
    [constant |-> e1.constant + e2.constant,
     linear |-> [i \in Nodes |-> e1.linear[i] + e2.linear[i]],
     quadratic |-> [pr \in Nodes \X Nodes |-> e1.quadratic[pr] + e2.quadratic[pr]]]

\* the value of the expression at the assignment x
Evaluate(e, x) ==
    e.constant
    + SumOver([i \in Nodes |-> e.linear[i] * x[i]], Nodes)
    + SumOver([pr \in Nodes \X Nodes |-> e.quadratic[pr] * x[pr[1]] * x[pr[2]]],
              Nodes \X Nodes)

\* an edge's term with the product of the two variables counted once
EdgeTermOnce(e) ==
    [constant |-> 0,
     linear |-> [i \in Nodes |-> (IF i = e[1] THEN e[3] ELSE 0)
                                 + (IF i = e[2] THEN e[3] ELSE 0)],
     quadratic |-> [pr \in Nodes \X Nodes |->
                       IF pr = <<e[1], e[2]>> THEN -(e[3]) ELSE 0]]

\* w * (x[i] + x[j] - 2*x[i]*x[j]) for the edge e = (i, j, w)
EdgeTerm(e) ==
    [constant |-> 0,
     linear |-> [i \in Nodes |-> (IF i = e[1] THEN e[3] ELSE 0)
                                 + (IF i = e[2] THEN e[3] ELSE 0)],
     quadratic |-> [pr \in Nodes \X Nodes |->
                       IF pr = <<e[1], e[2]>> THEN -2 * e[3] ELSE 0]]

\* objective = mdl.sum([w * (x[i] + x[j] - 2*x[i]*x[j]) for (i, j, w) in edges])
RECURSIVE SumEdgeTerms(_)
SumEdgeTerms(k) ==
    IF k = 0 THEN ZeroExpr ELSE ExprAdd(SumEdgeTerms(k - 1), EdgeTerm(edges[k]))

objective == SumEdgeTerms(Len(edges))

\* mdl.sum(x): the sum of all the variables
SumOfVariables ==
    [constant |-> 0,
     linear |-> [i \in Nodes |-> 1],
     quadratic |-> [pr \in Nodes \X Nodes |-> 0]]

\* An optimisation model: sense is 1 for a minimisation and -1 for a
\* maximisation (the values of QuadraticObjective's ObjSense), constraints is
\* the list of linear constraints [linear, sense, rhs].
MINIMIZE == 1
MAXIMIZE == -1

\* QuadraticProgram(): no variables yet, minimise 0, no constraints
EmptyProgram ==
    [n_vars |-> 0, sense |-> MINIMIZE, objective |-> ZeroExpr, constraints |-> <<>>]

\* qp.from_docplex(mdl): the variables, the objective with its sense, and the
\* linear constraints of the DOcplex model
from_docplex(model) ==
    [n_vars |-> model.n_vars,
     sense |-> model.sense,
     objective |-> model.objective,
     constraints |-> model.constraints]

\* penalty * (rhs - sum_i row[i] * x[i])^2 written out as an expression and
\* multiplied by sgn: the constant part, the linear parts, and the quadratic
\* parts over every ordered pair (j, k)
PenaltyTerm(sgn, penalty, con) ==
    [constant |-> sgn * penalty * con.rhs * con.rhs,
     linear |-> [j \in Nodes |-> sgn * penalty * (-2) * con.linear[j] * con.rhs],
     quadratic |-> [pr \in Nodes \X Nodes |->
                       sgn * penalty * con.linear[pr[1]] * con.linear[pr[2]]]]

RECURSIVE AddPenalties(_, _, _, _)
AddPenalties(e, sgn, penalty, cons) ==
    IF cons = <<>> THEN e
    ELSE AddPenalties(ExprAdd(e, PenaltyTerm(sgn, penalty, Head(cons))),
                      sgn, penalty, Tail(cons))

\* the converter adding the penalty whatever the sense of the objective
LinearEqualityToPenaltyUnsigned(penalty, prog) ==
    [n_vars |-> prog.n_vars,
     sense |-> prog.sense,
     objective |-> AddPenalties(prog.objective, 1, penalty, prog.constraints),
     constraints |-> <<>>]

\* LinearEqualityToPenalty(penalty).convert(prog): every equality constraint
\* sum_i a_i x_i = b becomes the term M * (b - sum_i a_i x_i)^2 of the
\* objective, added for a minimisation and subtracted for a maximisation; the
\* converted program has no constraints
LinearEqualityToPenalty(penalty, prog) ==
    [n_vars |-> prog.n_vars,
     sense |-> prog.sense,
     objective |-> AddPenalties(prog.objective, prog.sense, penalty, prog.constraints),
     constraints |-> <<>>]

\* QuadraticProgramToQubo(penalty).convert(prog): InequalityToEquality and
\* IntegerToBinary find nothing to convert in a program of binary variables
\* and equality constraints, which leaves LinearEqualityToPenalty
QuadraticProgramToQubo(penalty, prog) == LinearEqualityToPenalty(penalty, prog)

\* A weighted product of Pauli-Z matrices: coef * prod_{q in z} Z_q.
\* An operator is a list of such terms, meaning their sum.
PauliZ(coef, z) == [coef |-> coef, z |-> z]

\* f1 ^ f2 ^ ... ^ fn with each factor I or Z: the leftmost factor acts on the
\* highest qubit
Tensor(factors) ==
    PauliZ(Frac(1, 1), {Len(factors) - k : k \in {j \in 1..Len(factors) : factors[j] = "Z"}})

\* s1 ^ s2 ^ ... ^ sn with each factor Zero or One, as the assignment qubit -> bit
TensorState(factors) ==
    [q \in 0..(Len(factors) - 1) |-> IF factors[Len(factors) - q] = "One" THEN 1 ELSE 0]

\* <x| Z_q |x> is +1 for x[q] = 0 and -1 for x[q] = 1
ZSign(z, x) == IF Cardinality({q \in z : x[q] = 1}) % 2 = 0 THEN 1 ELSE -1

\* the sum of <x| term |x> over the terms lo..hi of the operator (summed by
\* halves, which keeps the evaluation shallow)
RECURSIVE ExpectationOfTerms(_, _, _, _)
ExpectationOfTerms(op, x, lo, hi) ==
    IF lo > hi THEN Frac(0, 1)
    ELSE IF lo = hi
         THEN Frac(op[lo].coef.num * ZSign(op[lo].z, x), op[lo].coef.den)
    ELSE LET mid == (lo + hi) \div 2
         IN  FAdd(ExpectationOfTerms(op, x, lo, mid),
                  ExpectationOfTerms(op, x, mid + 1, hi))

\* (~StateFn(op) @ psi).eval() for the computational basis state x
Expectation(op, x) == ExpectationOfTerms(op, x, 1, Len(op))

\* the terms to_ising makes of the linear coefficients from index k on, and
\* what they add to the shift
RECURSIVE LinearPaulis(_, _)
LinearPaulis(prog, k) ==
    IF k >= prog.n_vars THEN <<>>
    ELSE IF prog.objective.linear[k] = 0 THEN LinearPaulis(prog, k + 1)
    ELSE <<PauliZ(FNeg(Frac(prog.objective.linear[k] * prog.sense, 2)), {k})>>
         \o LinearPaulis(prog, k + 1)

RECURSIVE LinearShift(_, _)
LinearShift(prog, k) ==
    IF k >= prog.n_vars THEN Frac(0, 1)
    ELSE FAdd(Frac(prog.objective.linear[k] * prog.sense, 2), LinearShift(prog, k + 1))

\* quadratic.to_dict(): the coefficient of x[i]*x[j], i <= j, with the entries
\* (i, j) and (j, i) merged
QuadCoef(prog, i, j) ==
    IF i = j THEN prog.objective.quadratic[<<i, i>>]
    ELSE prog.objective.quadratic[<<i, j>>] + prog.objective.quadratic[<<j, i>>]

\* the terms to_ising makes of the quadratic coefficients, pair number k
\* standing for (k \div n_vars, k % n_vars), with the weight coef*sense/div
RECURSIVE QuadPaulis(_, _, _)
QuadPaulis(prog, k, div) ==
    IF k >= prog.n_vars * prog.n_vars THEN <<>>
    ELSE LET i == k \div prog.n_vars
             j == k % prog.n_vars
         IN  IF i > j \/ QuadCoef(prog, i, j) = 0 THEN QuadPaulis(prog, k + 1, div)
             ELSE LET weight == Frac(QuadCoef(prog, i, j) * prog.sense, div)
                  IN  (IF i = j THEN <<>> ELSE <<PauliZ(weight, {i, j})>>)
                      \o <<PauliZ(FNeg(weight), {i}), PauliZ(FNeg(weight), {j})>>
                      \o QuadPaulis(prog, k + 1, div)

RECURSIVE QuadShift(_, _, _)
QuadShift(prog, k, div) ==
    IF k >= prog.n_vars * prog.n_vars THEN Frac(0, 1)
    ELSE LET i == k \div prog.n_vars
             j == k % prog.n_vars
         IN  IF i > j \/ QuadCoef(prog, i, j) = 0 THEN QuadShift(prog, k + 1, div)
             ELSE LET weight == Frac(QuadCoef(prog, i, j) * prog.sense, div)
                  IN  FAdd(IF i = j THEN FAdd(weight, weight) ELSE weight,
                           QuadShift(prog, k + 1, div))

\* no exception
NoError == [kind |-> "", problem |-> "", use |-> ""]

\* The exception QuadraticProgram.to_ising raises for a program that has
\* constraints. Its message says that a constraint exists, that the method
\* supports only a model with no constraints, and to use a
\* QuadraticProgramToQubo converter, which turns the constraints into penalty
\* terms of the objective; the message is kept as what it reports and what it
\* tells the user to use.
ConstraintExists ==
    [kind |-> "QiskitOptimizationError", problem |-> "constraint exists",
     use |-> "QuadraticProgramToQubo"]

\* The conversion of a program with the given divisor for the quadratic
\* weights: the constraints are looked at first, and a program that has any is
\* refused before anything is computed. self is the program after the call.
Ising(prog, div) ==
    IF Len(prog.constraints) > 0
       THEN [kind |-> "raise", error |-> ConstraintExists, self |-> prog,
             H |-> <<>>, offset |-> Frac(0, 1)]
       ELSE [kind |-> "ok", error |-> NoError, self |-> prog,
             H |-> LinearPaulis(prog, 0) \o QuadPaulis(prog, 0, div),
             offset |-> FAdd(Frac(prog.objective.constant * prog.sense, 1),
                             FAdd(LinearShift(prog, 0), QuadShift(prog, 0, div)))]

\* to_ising with the quadratic weights halved like the linear ones
to_ising_halved(prog) == Ising(prog, 2)

\* to_ising converting whether or not the program has constraints
to_ising_unchecked(prog) ==
    [kind |-> "ok", error |-> NoError, self |-> prog,
     H |-> LinearPaulis(prog, 0) \o QuadPaulis(prog, 0, 4),
     offset |-> FAdd(Frac(prog.objective.constant * prog.sense, 1),
                     FAdd(LinearShift(prog, 0), QuadShift(prog, 0, 4)))]

\* prog.to_ising(): a program with constraints is refused with an error; else
\* x_i = (1 - z_i)/2 is substituted in the objective in minimisation form
\* (sense * objective): a linear coefficient c gives the weight c*sense/2, a
\* quadratic one the weight c*sense/4; the identity part is the offset
to_ising(prog) == Ising(prog, 4)

\* the total weight of the edges whose endpoints x puts in different partitions
CutWeight(x) ==
    SumOver([k \in 1..Len(edges) |->
                IF x[edges[k][1]] # x[edges[k][2]] THEN edges[k][3] ELSE 0],
            1..Len(edges))

(***************************************************************************)
(* Randomized benchmarking: Clifford elements by their action on the Pauli *)
(* matrices.                                                               *)
(***************************************************************************)
\* A Pauli operator on nq qubits: i^ph times the tensor product of the
\* letters p[1], ..., p[nq], each I, X, Y or Z.
Letters == {"I", "X", "Y", "Z"}

\* the product of two letters a * b as <<power of i, letter>>
MulLetters(a, c) ==
    IF a = "I" THEN <<0, c>>
    ELSE IF c = "I" THEN <<0, a>>
    ELSE IF a = c THEN <<0, "I">>
    ELSE IF <<a, c>> = <<"X", "Y">> THEN <<1, "Z">>
    ELSE IF <<a, c>> = <<"Y", "Z">> THEN <<1, "X">>
    ELSE IF <<a, c>> = <<"Z", "X">> THEN <<1, "Y">>
    ELSE IF <<a, c>> = <<"Y", "X">> THEN <<3, "Z">>
    ELSE IF <<a, c>> = <<"Z", "Y">> THEN <<3, "X">>
    ELSE <<3, "Y">>

PauliMul(P, Q) ==
    [ph |-> (P.ph + Q.ph
             + SumOver([k \in DOMAIN P.p |-> MulLetters(P.p[k], Q.p[k])[1]], DOMAIN P.p)) % 4,
     p |-> [k \in DOMAIN P.p |-> MulLetters(P.p[k], Q.p[k])[2]]]

\* the Pauli with the given letter on qubit k and I elsewhere
OnQubit(nq, k, letter) == [ph |-> 0, p |-> [j \in 1..nq |-> IF j = k THEN letter ELSE "I"]]

PauliI(nq) == [ph |-> 0, p |-> [j \in 1..nq |-> "I"]]

\* A Clifford element C: x[k] and z[k] are the Paulis C X_k C^-1 and C Z_k C^-1.
Identity(nq) ==
    [x |-> [k \in 1..nq |-> OnQubit(nq, k, "X")],
     z |-> [k \in 1..nq |-> OnQubit(nq, k, "Z")]]

\* C L_k C^-1 for the letter L on qubit k (Y = i X Z)
ImageOfLetter(C, k, letter) ==
    IF letter = "X" THEN C.x[k]
    ELSE IF letter = "Z" THEN C.z[k]
    ELSE IF letter = "Y"
         THEN LET XZ == PauliMul(C.x[k], C.z[k])
              IN  [ph |-> (XZ.ph + 1) % 4, p |-> XZ.p]
    ELSE PauliI(Len(C.x))

\* C P C^-1
RECURSIVE ImageFrom(_, _, _)
ImageFrom(C, P, k) ==
    IF k > Len(C.x) THEN [ph |-> P.ph, p |-> PauliI(Len(C.x)).p]
    ELSE PauliMul(ImageOfLetter(C, k, P.p[k]), ImageFrom(C, P, k + 1))

Image(C, P) == ImageFrom(C, P, 1)

\* the element "first A, then B"
Compose(A, B) ==
    [x |-> [k \in DOMAIN A.x |-> Image(B, A.x[k])],
     z |-> [k \in DOMAIN A.z |-> Image(B, A.z[k])]]

\* the Hermitian Paulis on nq qubits: a sign and a word of letters
SignedPaulis(nq) == {[ph |-> s, p |-> w] : s \in {0, 2}, w \in [1..nq -> Letters]}

\* the Pauli that C carries to P
Preimage(C, P) == CHOOSE Q \in SignedPaulis(Len(C.x)) : Image(C, Q) = P

\* C^-1: the element that carries X_k and Z_k to the Paulis C carries to them
Inverse(C) ==
    [x |-> [k \in DOMAIN C.x |-> Preimage(C, OnQubit(Len(C.x), k, "X"))],
     z |-> [k \in DOMAIN C.z |-> Preimage(C, OnQubit(Len(C.z), k, "Z"))]]

\* the 24 Clifford elements of one qubit: X goes to a signed X, Y or Z, and Z
\* to a signed one of the two other letters
Cliffords1 ==
    {[x |-> <<[ph |-> s, p |-> <<a>>]>>, z |-> <<[ph |-> t, p |-> <<c>>]>>] :
        s \in {0, 2}, t \in {0, 2},
        a \in {"X", "Y", "Z"}, c \in {"X", "Y", "Z"}} \
    {[x |-> <<[ph |-> s, p |-> <<a>>]>>, z |-> <<[ph |-> t, p |-> <<a>>]>>] :
        s \in {0, 2}, t \in {0, 2}, a \in {"X", "Y", "Z"}}

\* gates of two qubits: Hadamard, phase and Pauli-X on either qubit, and the
\* controlled-NOT either way
Hadamard(k) ==
    [x |-> [j \in 1..2 |-> OnQubit(2, j, IF j = k THEN "Z" ELSE "X")],
     z |-> [j \in 1..2 |-> OnQubit(2, j, IF j = k THEN "X" ELSE "Z")]]

Phase(k) ==
    [x |-> [j \in 1..2 |-> OnQubit(2, j, IF j = k THEN "Y" ELSE "X")],
     z |-> [j \in 1..2 |-> OnQubit(2, j, "Z")]]

PauliX(k) ==
    [x |-> [j \in 1..2 |-> OnQubit(2, j, "X")],
     z |-> [j \in 1..2 |-> [ph |-> IF j = k THEN 2 ELSE 0, p |-> OnQubit(2, j, "Z").p]]]

CNOT(c, t) ==
    [x |-> [j \in 1..2 |-> IF j = c THEN [ph |-> 0, p |-> <<"X", "X">>]
                           ELSE OnQubit(2, j, "X")],
     z |-> [j \in 1..2 |-> IF j = t THEN [ph |-> 0, p |-> <<"Z", "Z">>]
                           ELSE OnQubit(2, j, "Z")]]

\* gates that generate the Clifford group of two qubits
Generators2 == <<Hadamard(1), Hadamard(2), Phase(1), Phase(2), PauliX(1), PauliX(2),
                 CNOT(1, 2), CNOT(2, 1)>>

\* The k-th element of the two-qubit Clifford group, the group being listed
\* as the products of its generators: the empty product first, then the
\* generators, then the products of two of them, and so on (every element of
\* the group is such a product, and turns up at some k).
RECURSIVE Clifford2(_)
Clifford2(k) ==
    IF k = 0 THEN Identity(2)
    ELSE Compose(Clifford2((k - 1) \div Len(Generators2)),
                 Generators2[((k - 1) % Len(Generators2)) + 1])

\* the elements of the two-qubit Clifford group a sequence draws from: the
\* group has 11520 elements, the model samples over the first MaxCliffords2
Cliffords2 == {Clifford2(k) : k \in 0..(MaxCliffords2 - 1)}

\* the elements a sequence on nq qubits draws from
Cliffords(nq) == IF nq = 1 THEN Cliffords1 ELSE Cliffords2

\* lengths = np.arange(1, 50, 2), cut at the bound
lengths == {l \in 1..MaxLength : l % 2 = 1}

MaxOf(S) == CHOOSE m \in S : \A k \in S : k <= m

\* the running element with the new Clifford put before the others
NextElmntBefore(el, c) == Compose(c, el)

\* the running element of a sequence once the Clifford c is appended to it
NextElmnt(el, c) == Compose(el, c)

\* what all the elements of a circuit compose to, from the first to the last
RECURSIVE Composite(_, _)
Composite(nq, cs) ==
    IF cs = <<>> THEN Identity(nq)
    ELSE Compose(Composite(nq, SubSeq(cs, 1, Len(cs) - 1)), cs[Len(cs)])

(***************************************************************************)
(* SpecCalc: calc_prob1 on every bounded counts dictionary.                *)
(***************************************************************************)
IdleT1 ==
    /\ pc = "idle"
    /\ qubits = 0
    /\ axs = [rows |-> 0, cols |-> 0]
    /\ qi = 0
    /\ exp = 0
    /\ prob_1s = <<>>
    /\ attrs = <<>>
    /\ fit_calls = <<>>
    /\ file = <<>>
    /\ reloaded = <<>>
    /\ delays = <<>>
    /\ fit_function_calls = <<>>
    /\ t1 = [m |-> 0, e |-> 0]
    /\ y_fit = <<>>

IdleQP ==
    /\ qp_pc = "idle"
    /\ mdl = EmptyProgram
    /\ qp = EmptyProgram
    /\ qp_eq = EmptyProgram
    /\ direct_translation = EmptyProgram
    /\ H = <<>>
    /\ offset = Frac(0, 1)
    /\ psi = [q \in Nodes |-> 0]
    /\ energy = Frac(0, 1)
    /\ raised = NoError
    /\ assignment = [q \in Nodes |-> 0]

IdleRB ==
    /\ rb_pc = "idle"
    /\ rb_pattern = 0
    /\ seed = 0
    /\ circ = <<>>
    /\ elmnt = <<>>
    /\ rb_circ = <<>>

IdleEx ==
    /\ ex_pc = "idle"
    /\ rb_circs = <<>>
    /\ rb_seed = 0
    /\ rb_circ_transpile = <<>>
    /\ job = {}
    /\ result_list = <<>>
    /\ transpile_list = <<>>
    /\ stdout = <<>>
    /\ alpha = Frac(0, 1)
    /\ epc = Frac(0, 1)

InitCalc ==
    /\ counts \in CountsDicts
    /\ prob_1 = None
    /\ IdleT1
    /\ IdleQP
    /\ IdleRB
    /\ IdleEx

CalcProb1 ==
    /\ pc = "idle"
    /\ prob_1 = None
    /\ prob_1' = calc_prob1(counts)
    /\ UNCHANGED <<counts, t1Vars>>
    /\ UNCHANGED <<qpVars, rbVars, exVars>>

NextCalc == CalcProb1

SpecCalc == InitCalc /\ [][NextCalc]_vars

\* C2: calc_prob1 returns the 1/0 state ratio of its docstring, the number
\* of '1' outcomes divided by the number of '0' outcomes (wherever that ratio
\* exists).
C2_ReturnsOneOverZeroRatio ==
    (prob_1 # None /\ Get(counts, "0", 0) > 0) => prob_1 = calc_prob1_ratio(counts)

\* the dictionary with every key but '0' and '1' removed
OnlyZeroOne(d) == [k \in DOMAIN d \cap {"0", "1"} |-> d[k]]

\* C3: with at least one '0' or '1' occurrence, the result is a number in
\* [0, 1], it is 0 when '1' is absent and 1 when '0' is absent, and it is the
\* result for the dictionary stripped of every other key.
C3_ProbabilityInUnitInterval ==
    (prob_1 # None /\ Get(counts, "0", 0) + Get(counts, "1", 0) > 0)
        => /\ prob_1.kind = "float"
           /\ 0 <= prob_1.num
           /\ prob_1.num <= prob_1.den
           /\ prob_1.den * Get(counts, "1", 0)
                  = prob_1.num * (Get(counts, "0", 0) + Get(counts, "1", 0))
           /\ ("1" \notin DOMAIN counts => prob_1.num = 0)
           /\ ("0" \notin DOMAIN counts => prob_1.num = prob_1.den)
           /\ prob_1 = calc_prob1(OnlyZeroOne(counts))

\* '0' is absent, '1' occurred twice and another key holds counts: the result is 1
C3_Witness ==
    /\ pc = "idle"
    /\ "0" \notin DOMAIN counts
    /\ Get(counts, "1", 0) = 2
    /\ Get(counts, "10", 0) > 0
    /\ prob_1 = [kind |-> "float", num |-> 1, den |-> 1]

(***************************************************************************)
(* SpecT1: the T1 exercise.                                                *)
(***************************************************************************)
\* a number m * 10^e, so that the notebook's scalings by 1e6 and 1e-6 are exact
Num(m, e) == [m |-> m, e |-> e]
Times10(v, k) == [m |-> v.m, e |-> v.e + k]

Min(p, q) == IF p <= q THEN p ELSE q
\* np.ceil(n / 2)
CeilHalf(k) == (k + 1) \div 2

\* the records 'saved_chip_ex1.json' may hold: a list of qubits, none of them
\* with a T1 yet (T1 is what this exercise measures)
ChipFiles ==
    { [k \in 1..len |-> [index |-> k - 1, has_t1 |-> FALSE, t1 |-> Num(0, 0)]] :
        len \in 1..MaxQubits }

\* Chip.load(filename): the chip whose qubits and attributes the record lists
Chip_load(f) ==
    [q \in 0..(Len(f) - 1) |-> [t1_set |-> f[q + 1].has_t1, t1 |-> f[q + 1].t1]]

\* chip = Chip.load('saved_chip_ex1.json')
ChipLoad ==
    /\ pc = "load"
    /\ qubits' = Len(file)
    /\ attrs' = Chip_load(file)
    /\ pc' = "delays"
    /\ UNCHANGED <<counts, prob_1, axs, qi, exp, prob_1s, fit_calls>>
    /\ UNCHANGED <<file, reloaded, delays, fit_function_calls, t1, y_fit>>
    /\ UNCHANGED <<qpVars, rbVars, exVars>>

\* min_delay = 0. and max_delay = 200.e-6, in seconds
min_delay == Num(Frac(0, 1), -6)
max_delay == Num(Frac(200, 1), -6)

\* np.linspace(start, stop, num): num evenly spaced values, both ends included
linspace(start, stop, num) ==
    [k \in 1..num |->
        Num(FAdd(start.m,
                 Frac((k - 1) * (stop.m.num * start.m.den - start.m.num * stop.m.den),
                      (num - 1) * stop.m.den * start.m.den)),
            start.e)]

\* delays = np.linspace(min_delay, max_delay, n_exps)
DefineDelays ==
    /\ pc = "delays"
    /\ delays' = linspace(min_delay, max_delay, NExps)
    /\ pc' = "subplots"
    /\ UNCHANGED <<counts, prob_1, qubits, axs, qi, exp, prob_1s, attrs, fit_calls>>
    /\ UNCHANGED <<file, reloaded, fit_function_calls, t1, y_fit>>
    /\ UNCHANGED <<qpVars, rbVars, exVars>>

\* int(min(np.ceil(len(chip.qubits)/2), 1))
SubplotRows(k) == Min(CeilHalf(k), 1)

\* len(axs): plt.subplots squeezes a single row to a 1-D array of the columns;
\* with more rows axs is 2-D and iterating it yields its rows
LenAxs == IF axs.rows = 1 THEN axs.cols ELSE axs.rows

\* fig, axs = plt.subplots(rows, 2); axs.reshape(-1) returns a new array that
\* is dropped
Subplots ==
    /\ pc = "subplots"
    /\ axs' = [rows |-> SubplotRows(qubits), cols |-> 2]
    /\ qi' = 0
    /\ pc' = "loop"
    /\ UNCHANGED <<counts, prob_1, qubits, exp, prob_1s, attrs, fit_calls>>
    /\ UNCHANGED <<file, reloaded, delays, fit_function_calls, t1, y_fit>>
    /\ UNCHANGED <<qpVars, rbVars, exVars>>

\* for qubit, ax in zip(chip.qubits, axs): the next pair, and the entry of
\* extract_prob1_data (prob_1s = np.zeros(n_exps))
ZipNext ==
    /\ pc = "loop"
    /\ qi < Min(qubits, LenAxs)
    /\ prob_1s' = [k \in 1..NExps |-> Frac(0, 1)]
    /\ exp' = 0
    /\ pc' = "extract"
    /\ UNCHANGED <<counts, prob_1, qubits, axs, qi, attrs, fit_calls>>
    /\ UNCHANGED <<file, reloaded, delays, fit_function_calls, t1, y_fit>>
    /\ UNCHANGED <<qpVars, rbVars, exVars>>

\* zip is exhausted as soon as either chip.qubits or axs is: the loop ends and
\* the rest of the cell (fig.text, fig.suptitle) runs
ZipExhausted ==
    /\ pc = "loop"
    /\ qi >= Min(qubits, LenAxs)
    /\ pc' = "done"
    /\ UNCHANGED <<counts, prob_1, qubits, axs, qi, exp, prob_1s, attrs, fit_calls>>
    /\ UNCHANGED <<file, reloaded, delays, fit_function_calls, t1, y_fit>>
    /\ UNCHANGED <<qpVars, rbVars, exVars>>

\* one round of `for exp in range(n_exps)` in extract_prob1_data: the counts of
\* the qubit in experiment exp, then calc_prob1. A ZeroDivisionError is caught
\* nowhere and ends the cell.
ExtractStep ==
    /\ pc = "extract"
    /\ exp < NExps
    /\ \E c \in MarginalDicts :
          /\ counts' = c
          /\ prob_1' = calc_prob1(c)
    /\ IF prob_1'.kind = "ZeroDivisionError"
          THEN /\ pc' = "error"
               /\ UNCHANGED <<exp, prob_1s>>
          ELSE /\ prob_1s' = [prob_1s EXCEPT ![exp + 1] = prob_1']
               /\ exp' = exp + 1
               /\ pc' = "extract"
    /\ UNCHANGED <<qubits, axs, qi, attrs, fit_calls>>
    /\ UNCHANGED <<file, reloaded, delays, fit_function_calls, t1, y_fit>>
    /\ UNCHANGED <<qpVars, rbVars, exVars>>

\* the first fitted parameter fit_function may return: any positive number
\* (cut at the bound)
FittedT1s == 1..MaxT1

\* fit_function(x_values, y_values, function, init_params): one least-squares
\* fit of function to the data. The fitted parameter of exp(-tau/t1) is a time
\* in the unit of the x values; the fitted curve is function at the fitted
\* parameters over the x values.
fit_function(x_values, y_values, function, init_params) ==
    { [fit_params |-> <<Num(m, x_values[1].e)>>,
       y_fit |-> [function |-> function, params |-> <<m>>, x |-> x_values]] :
        m \in FittedT1s }

\* the arguments fit_t1 hands to fit_function
fit_t1_args(d, prob1_data) ==
    [x_values |-> d, y_values |-> prob1_data,
     function |-> "inversion_recovery_function", init_params |-> <<100>>]

\* fit_t1(delays, prob1_data): return fit_params[0], y_fit
fit_t1(d, prob1_data) ==
    { <<r.fit_params[1], r.y_fit>> :
        r \in fit_function(fit_t1_args(d, prob1_data).x_values,
                           fit_t1_args(d, prob1_data).y_values,
                           fit_t1_args(d, prob1_data).function,
                           fit_t1_args(d, prob1_data).init_params) }

\* delays * 1e3
scaled_delays_milli(d) == [k \in DOMAIN d |-> Times10(d[k], 3)]

\* scaled_delays = delays * 1e6
scaled_delays(d) == [k \in DOMAIN d |-> Times10(d[k], 6)]

\* extract_prob1_data returns prob_1s; fit_t1 fits it against the scaled
\* delays; the plot calls need ax to be one Axes; qubit.attrs.t1 = t1*1e-6
FitQubit ==
    /\ pc = "extract"
    /\ exp = NExps
    /\ fit_function_calls' =
          Append(fit_function_calls, fit_t1_args(scaled_delays(delays), prob_1s))
    /\ fit_calls' = Append(fit_calls, qi)
    /\ \E r \in fit_t1(scaled_delays(delays), prob_1s) :
          /\ t1' = r[1]
          /\ y_fit' = r[2]
          /\ IF axs.rows = 1
                THEN /\ attrs' = [attrs EXCEPT ![qi] =
                                     [t1_set |-> TRUE, t1 |-> Times10(r[1], -6)]]
                     /\ qi' = qi + 1
                     /\ pc' = "loop"
                ELSE \* ax is a row of Axes, which has no plot: AttributeError
                     /\ pc' = "error"
                     /\ UNCHANGED <<attrs, qi>>
    /\ UNCHANGED <<counts, prob_1, qubits, axs, exp, prob_1s>>
    /\ UNCHANGED <<file, reloaded, delays>>
    /\ UNCHANGED <<qpVars, rbVars, exVars>>

\* a notebook run afterwards loads the record again
ChipReload ==
    /\ pc = "done"
    /\ reloaded' = Chip_load(file)
    /\ pc' = "reloaded"
    /\ UNCHANGED <<counts, prob_1, qubits, axs, qi, exp, prob_1s, attrs, fit_calls>>
    /\ UNCHANGED <<file, delays, fit_function_calls, t1, y_fit>>
    /\ UNCHANGED <<qpVars, rbVars, exVars>>

InitT1 ==
    /\ counts = <<>>
    /\ prob_1 = None
    /\ pc = "load"
    /\ qubits = 0
    /\ axs = [rows |-> 0, cols |-> 0]
    /\ qi = 0
    /\ exp = 0
    /\ prob_1s = <<>>
    /\ attrs = <<>>
    /\ fit_calls = <<>>
    /\ file \in ChipFiles
    /\ reloaded = <<>>
    /\ delays = <<>>
    /\ fit_function_calls = <<>>
    /\ t1 = [m |-> 0, e |-> 0]
    /\ y_fit = <<>>
    /\ IdleQP
    /\ IdleRB
    /\ IdleEx

NextT1 ==
    \/ ChipLoad
    \/ DefineDelays
    \/ Subplots
    \/ ZipNext
    \/ ZipExhausted
    \/ ExtractStep
    \/ FitQubit
    \/ ChipReload

SpecT1 == InitT1 /\ [][NextT1]_vars

\* C1: once the fit loop has finished, every qubit of chip.qubits has had its
\* data extracted and fitted and has attrs.t1 set.
C1_EveryQubitFitted ==
    pc = "done" =>
        \A q \in 0..(qubits - 1) :
            /\ attrs[q].t1_set
            /\ \E k \in 1..Len(fit_calls) : fit_calls[k] = q

\* C13: whenever the counts handed to calc_prob1 in the fit loop hold no '0'
\* and no '1' occurrence, calc_prob1 ends in a ZeroDivisionError, the cell
\* ends there (no step follows an error), fit_t1 is never called for the qubit
\* whose data was being extracted, and that qubit and every later one are
\* left without attrs.t1.
C13_DivisionByZeroIsUncaught ==
    /\ [](/\ prob_1 # None
          /\ Get(counts, "0", 0) + Get(counts, "1", 0) = 0
          => /\ prob_1 = ZeroDivisionError
             /\ pc = "error"
             /\ \A k \in 1..Len(fit_calls) : fit_calls[k] # qi
             /\ \A q \in qi..(qubits - 1) : ~attrs[q].t1_set)
    /\ [][pc # "error"]_vars

\* the second of three qubits fails in its second experiment, on counts that
\* hold a '0' key with no occurrence; the first qubit has its T1
C13_Witness ==
    /\ pc = "error"
    /\ prob_1 = ZeroDivisionError
    /\ counts = [k \in {"0"} |-> 0]
    /\ qubits = 3
    /\ qi = 1
    /\ exp = 1
    /\ attrs[0].t1_set
    /\ ~attrs[1].t1_set

\* C14: the chip is loaded from the record before any qubit attribute is
\* read, and a chip reloaded from the record after the fit loop holds the T1
\* values the loop wrote into qubit.attrs.t1.
C14_T1IsPersisted ==
    /\ pc # "load" => DOMAIN attrs = 0..(Len(file) - 1)
    /\ pc = "reloaded" =>
          /\ DOMAIN reloaded = DOMAIN attrs
          /\ \A q \in DOMAIN attrs :
                attrs[q].t1_set => /\ reloaded[q].t1_set
                                   /\ reloaded[q].t1 = attrs[q].t1

\* C15: fit_function is called once per fit_t1 call, with the delays in
\* microseconds (the delays in seconds times 1e6), the extracted data,
\* inversion_recovery_function and the guess [100]; fit_t1 returns the first
\* fitted parameter, a time in microseconds, and the fitted curve; attrs.t1 of
\* the qubit fitted is that time in seconds, the unit of delays.
C15_FitKeepsUnits ==
    /\ Len(fit_function_calls) = Len(fit_calls)
    /\ fit_calls # <<>> =>
          LET call == fit_function_calls[Len(fit_function_calls)]
              qubit == fit_calls[Len(fit_calls)]
          IN  /\ call.init_params = <<100>>
              /\ call.function = "inversion_recovery_function"
              /\ DOMAIN call.x_values = DOMAIN delays
              /\ \A k \in DOMAIN delays :
                    /\ call.x_values[k].m = delays[k].m
                    /\ call.x_values[k].e = delays[k].e + 6
              /\ pc = "loop" => call.y_values = prob_1s
              /\ t1.m \in FittedT1s
              /\ t1.e = delays[1].e + 6
              /\ y_fit = [function |-> call.function, params |-> <<t1.m>>,
                          x |-> call.x_values]
              /\ attrs[qubit].t1_set
              /\ attrs[qubit].t1.m = t1.m
              /\ attrs[qubit].t1.e = delays[1].e

\* the second qubit has just been fitted to 2 microseconds
C15_Witness ==
    /\ pc = "loop"
    /\ Len(fit_calls) = 2
    /\ t1 = Num(2, 0)
    /\ attrs[1].t1 = Num(2, -6)
    /\ fit_function_calls[2].x_values[NExps] = Num(Frac(200, 1), 0)

(***************************************************************************)
(* SpecQP: the optimisation session, cell by cell.                         *)
(***************************************************************************)
InitQP ==
    /\ counts = <<>>
    /\ prob_1 = None
    /\ IdleT1
    /\ qp_pc = "model"
    /\ mdl = EmptyProgram
    /\ qp = EmptyProgram
    /\ qp_eq = EmptyProgram
    /\ direct_translation = EmptyProgram
    /\ H = <<>>
    /\ offset = Frac(0, 1)
    /\ psi = [q \in Nodes |-> 0]
    /\ energy = Frac(0, 1)
    /\ raised = NoError
    /\ assignment \in Assignments
    /\ IdleRB
    /\ IdleEx

\* mdl = Model('MaxCut'); x = mdl.binary_var_list(...); mdl.maximize(objective)
BuildModel ==
    /\ qp_pc = "model"
    /\ mdl' = [n_vars |-> n, sense |-> MAXIMIZE, objective |-> objective,
               constraints |-> <<>>]
    /\ qp_pc' = "constraint"
    /\ UNCHANGED <<qp, qp_eq, direct_translation, H, offset, psi, energy, raised>>
    /\ UNCHANGED <<calcVars, t1Vars, rbVars, exVars, assignment>>

\* mdl.add_constraint(mdl.sum(x) == b)
AddConstraint ==
    /\ qp_pc = "constraint"
    /\ mdl' = [mdl EXCEPT !.constraints =
                  Append(@, [linear |-> SumOfVariables.linear, sense |-> "==", rhs |-> b])]
    /\ qp_pc' = "from_docplex"
    /\ UNCHANGED <<qp, qp_eq, direct_translation, H, offset, psi, energy, raised>>
    /\ UNCHANGED <<calcVars, t1Vars, rbVars, exVars, assignment>>

\* qp = QuadraticProgram(); qp.from_docplex(mdl)
FromDocplex ==
    /\ qp_pc = "from_docplex"
    /\ qp' = from_docplex(mdl)
    /\ qp_pc' = "convert"
    /\ UNCHANGED <<mdl, qp_eq, direct_translation, H, offset, psi, energy, raised>>
    /\ UNCHANGED <<calcVars, t1Vars, rbVars, exVars, assignment>>

\* qp_eq = LinearEqualityToPenalty(penalty=1).convert(qp)
ConvertToPenalty ==
    /\ qp_pc = "convert"
    /\ qp_eq' = LinearEqualityToPenalty(1, qp)
    /\ qp_pc' = "direct"
    /\ UNCHANGED <<mdl, qp, direct_translation, H, offset, psi, energy, raised>>
    /\ UNCHANGED <<calcVars, t1Vars, rbVars, exVars, assignment>>

\* direct_translation = QuadraticProgramToQubo(penalty=10).convert(qp)
DirectTranslation ==
    /\ qp_pc = "direct"
    /\ direct_translation' = QuadraticProgramToQubo(10, qp)
    /\ qp_pc' = "define_H"
    /\ UNCHANGED <<mdl, qp, qp_eq, H, offset, psi, energy, raised>>
    /\ UNCHANGED <<calcVars, t1Vars, rbVars, exVars, assignment>>

\* H = I ^ I ^ Z ^ Z ^ I
DefineH ==
    /\ qp_pc = "define_H"
    /\ H' = <<Tensor(<<"I", "I", "Z", "Z", "I">>)>>
    /\ qp_pc' = "eval"
    /\ UNCHANGED <<mdl, qp, qp_eq, direct_translation, offset, psi, energy, raised>>
    /\ UNCHANGED <<calcVars, t1Vars, rbVars, exVars, assignment>>

\* psi = Zero ^ One ^ Zero ^ One ^ Zero; (~StateFn(H) @ psi).eval()
EvalPsi ==
    /\ qp_pc = "eval"
    /\ psi' = TensorState(<<"Zero", "One", "Zero", "One", "Zero">>)
    /\ energy' = Expectation(H, psi')
    /\ qp_pc' = "to_ising"
    /\ UNCHANGED <<mdl, qp, qp_eq, direct_translation, H, offset, raised>>
    /\ UNCHANGED <<calcVars, t1Vars, rbVars, exVars, assignment>>

\* H, offset = qp_eq.to_ising()
ToIsingQpEq ==
    /\ qp_pc = "to_ising"
    /\ LET r == to_ising(qp_eq)
       IN  /\ qp_eq' = r.self
           /\ raised' = r.error
           /\ IF r.kind = "ok"
                 THEN /\ H' = r.H
                      /\ offset' = r.offset
                 ELSE UNCHANGED <<H, offset>>
    /\ qp_pc' = "to_ising_qp"
    /\ UNCHANGED <<mdl, qp, direct_translation, psi, energy>>
    /\ UNCHANGED <<calcVars, t1Vars, rbVars, exVars, assignment>>

\* qp.to_ising(): the value, if there is one, is only displayed and bound to
\* no name
ToIsingQp ==
    /\ qp_pc = "to_ising_qp"
    /\ qp' = to_ising(qp).self
    /\ raised' = to_ising(qp).error
    /\ qp_pc' = "end"
    /\ UNCHANGED <<mdl, qp_eq, direct_translation, H, offset, psi, energy>>
    /\ UNCHANGED <<calcVars, t1Vars, rbVars, exVars, assignment>>

NextQP ==
    \/ BuildModel
    \/ AddConstraint
    \/ FromDocplex
    \/ ConvertToPenalty
    \/ DirectTranslation
    \/ DefineH
    \/ EvalPsi
    \/ ToIsingQpEq
    \/ ToIsingQp

SpecQP == InitQP /\ [][NextQP]_vars

\* C6: at the binary assignment x of the 5 nodes (any of the 32), the
\* objective of the DOcplex model is the total weight of the edges x cuts.
C6_ObjectiveIsCutWeight ==
    qp_pc # "model" =>
        Evaluate(mdl.objective, assignment) = CutWeight(assignment)

\* the model is built, and x is (0,1,0,1,0), which cuts 5 of the 7 edges
C6_Witness ==
    /\ qp_pc = "constraint"
    /\ mdl.sense = MAXIMIZE
    /\ assignment = TensorState(<<"Zero", "One", "Zero", "One", "Zero">>)
    /\ Evaluate(mdl.objective, assignment) = 5

\* the positions of the session at which qp_eq has been made
QpEqMade == qp_pc \in {"direct", "define_H", "eval", "to_ising", "to_ising_qp", "end"}

\* the positions of the session at which H is the Hamiltonian to_ising returned
IsingMade == qp_pc \in {"to_ising_qp", "end"}

\* C7: qp_eq has no constraints, and at the binary assignment x its objective
\* is cut(x) - 1 * (2 - sum(x))^2: the objective of qp where sum(x) = 2 and
\* strictly less everywhere else.
C7_PenaltyReplacesConstraint ==
    QpEqMade =>
        /\ qp_eq.constraints = <<>>
        /\ Len(qp.constraints) = 1
        /\ LET total == SumOver(assignment, Nodes)
           IN  /\ Evaluate(qp_eq.objective, assignment)
                     = CutWeight(assignment) - 1 * (2 - total) * (2 - total)
               /\ total = 2 =>
                     Evaluate(qp_eq.objective, assignment)
                         = Evaluate(qp.objective, assignment)
               /\ total # 2 =>
                     Evaluate(qp_eq.objective, assignment)
                         < Evaluate(qp.objective, assignment)

\* qp_eq is made, and x = (1,1,1,0,0) has sum(x) = 3: its value in qp_eq is
\* 1 less than in qp
C7_Witness ==
    /\ qp_pc = "direct"
    /\ qp_eq.sense = MAXIMIZE
    /\ assignment = TensorState(<<"One", "One", "One", "Zero", "Zero">>)
    /\ Evaluate(qp.objective, assignment) - 1 = Evaluate(qp_eq.objective, assignment)

\* C8: at the binary assignment x, <x|H|x> + offset is the negated objective
\* of qp_eq at x (its minimisation form), so x is a basis state of least
\* energy exactly when the objective is greatest at x.
C8_IsingEnergyIsNegatedObjective ==
    IsingMade =>
        LET E == [x \in Assignments |-> FAdd(Expectation(H, x), offset)]
            F == [x \in Assignments |-> Evaluate(qp_eq.objective, x)]
        IN  /\ E[assignment] = Frac(-F[assignment], 1)
            /\ (\A y \in Assignments : FLeq(E[assignment], E[y]))
                  <=> (\A y \in Assignments : F[y] <= F[assignment])

\* H is the Hamiltonian of qp_eq and x = (0,1,0,1,0) an optimal assignment:
\* its energy plus the offset is -5; the energy printed before, of
\* I^I^Z^Z^I in the same state, is still -1
C8_Witness ==
    /\ qp_pc = "to_ising_qp"
    /\ raised = NoError
    /\ assignment = TensorState(<<"Zero", "One", "Zero", "One", "Zero">>)
    /\ psi = assignment
    /\ energy = Frac(-1, 1)
    /\ FAdd(Expectation(H, assignment), offset) = Frac(-5, 1)
    /\ \A y \in Assignments : Evaluate(qp_eq.objective, y) <= 5

\* C9: qp.to_ising(), qp holding its equality constraint, yields no
\* Hamiltonian (H and offset stay what they were): it ends in an error whose
\* message reports the constraint and names the converter to use, one of the
\* session, whose result has no constraint and does convert; qp is left as
\* it was. qp_eq.to_ising(), qp_eq holding no constraint, ends without an
\* error and yields a Hamiltonian. Of the programs of the session, those
\* without constraints are the ones that convert.
C9_ConstrainedProgramIsRefused ==
    [][/\ (qp_pc = "to_ising_qp" /\ qp_pc' = "end") =>
              /\ Len(qp.constraints) > 0
              /\ raised'.kind = "QiskitOptimizationError"
              /\ raised'.problem = "constraint exists"
              /\ raised'.use = "QuadraticProgramToQubo"
              /\ direct_translation = QuadraticProgramToQubo(10, qp)
              /\ Len(direct_translation.constraints) = 0
              /\ to_ising(direct_translation).kind = "ok"
              /\ qp' = qp
              /\ H' = H
              /\ offset' = offset
       /\ (qp_pc = "to_ising" /\ qp_pc' = "to_ising_qp") =>
              /\ Len(qp_eq.constraints) = 0
              /\ raised' = NoError
              /\ qp_eq' = qp_eq
              /\ Len(H') > 1
       /\ qp_pc \in {"to_ising", "to_ising_qp"} =>
              \A prog \in {qp, qp_eq, direct_translation} :
                  to_ising(prog).kind = "ok" <=> Len(prog.constraints) = 0]_vars

\* the session has ended with the error of qp.to_ising(), qp still holding
\* its constraint and H still the Hamiltonian of qp_eq
C9_Witness ==
    /\ qp_pc = "end"
    /\ raised = ConstraintExists
    /\ Len(qp.constraints) = 1
    /\ H = to_ising(qp_eq).H

(***************************************************************************)
(* SpecRB: rb.randomized_benchmarking_seq(length_vector=lengths,           *)
(* nseeds=nSeeds, rb_pattern=rb_pattern) for the two designs of Session 2. *)
(***************************************************************************)
InitRB ==
    /\ counts = <<>>
    /\ prob_1 = None
    /\ IdleT1
    /\ IdleQP
    /\ IdleEx
    /\ rb_pc = "design"
    /\ rb_pattern = 0
    /\ seed = 0
    /\ circ = <<>>
    /\ elmnt = <<>>
    /\ rb_circ = <<>>

\* rb_pattern = [[0]] (1-qubit design) or [[0, 1]] (2-qubit design); the
\* sequence of the first seed starts empty
ChooseDesign ==
    /\ rb_pc = "design"
    /\ \E nq \in {1, 2} :
          /\ rb_pattern' = nq
          /\ elmnt' = Identity(nq)
    /\ seed' = 0
    /\ circ' = <<>>
    /\ rb_circ' = <<>>
    /\ rb_pc' = "seq"
    /\ UNCHANGED <<calcVars, t1Vars, qpVars, exVars>>

\* one more random Clifford joins the sequence; when the sequence has one of
\* the lengths asked for, a circuit is emitted: the sequence so far, then the
\* inverse of what it composes to
AppendClifford ==
    /\ rb_pc = "seq"
    /\ Len(circ) < MaxOf(lengths)
    /\ \E c \in Cliffords(rb_pattern) :
          /\ circ' = Append(circ, c)
          /\ elmnt' = NextElmnt(elmnt, c)
    /\ rb_circ' = IF Len(circ') \in lengths
                     THEN Append(circ', Inverse(elmnt'))
                     ELSE rb_circ
    /\ UNCHANGED <<rb_pc, rb_pattern, seed>>
    /\ UNCHANGED <<calcVars, t1Vars, qpVars, exVars>>

\* the sequence of one seed is complete: the next seed starts a new one
NextSeed ==
    /\ rb_pc = "seq"
    /\ Len(circ) = MaxOf(lengths)
    /\ seed + 1 < NSeeds
    /\ seed' = seed + 1
    /\ circ' = <<>>
    /\ elmnt' = Identity(rb_pattern)
    /\ rb_circ' = <<>>
    /\ UNCHANGED <<rb_pc, rb_pattern>>
    /\ UNCHANGED <<calcVars, t1Vars, qpVars, exVars>>

\* the last seed is complete: rb_circs and xdata are returned
ReturnDesign ==
    /\ rb_pc = "seq"
    /\ Len(circ) = MaxOf(lengths)
    /\ seed + 1 >= NSeeds
    /\ rb_pc' = "returned"
    /\ UNCHANGED <<rb_pattern, seed, circ, elmnt, rb_circ>>
    /\ UNCHANGED <<calcVars, t1Vars, qpVars, exVars>>

NextRB ==
    \/ ChooseDesign
    \/ AppendClifford
    \/ NextSeed
    \/ ReturnDesign

SpecRB == InitRB /\ [][NextRB]_vars

\* C10: every circuit emitted is L Cliffords, L one of the lengths, followed
\* by one more element, and all of them together compose to the identity.
C10_CircuitIsSelfInverting ==
    rb_circ # <<>> =>
        /\ Len(rb_circ) - 1 \in lengths
        /\ \A k \in 1..(Len(rb_circ) - 1) : rb_circ[k] \in Cliffords(rb_pattern)
        /\ Composite(rb_pattern, rb_circ) = Identity(rb_pattern)

\* a 2-qubit circuit of three Cliffords that do not compose to the identity,
\* followed by one more element
C10_Witness ==
    /\ rb_pattern = 2
    /\ Len(rb_circ) = 4
    /\ rb_circ[1] = CNOT(1, 2)
    /\ rb_circ[2] = Hadamard(1)
    /\ Composite(2, SubSeq(rb_circ, 1, 3)) # Identity(2)
    /\ rb_circ[4] # rb_circ[3]

(***************************************************************************)
(* SpecEx: the cell that executes the RB sequences of a design, seed by    *)
(* seed, and the error per Clifford derived from the fit that follows.     *)
(***************************************************************************)
\* largest denominator of the decay constants the fit is taken to return
AlphaDen == 4

basis_gates == <<"u1", "u2", "u3", "cx">>
shots == 200

\* the circuits rb.randomized_benchmarking_seq returned: for every seed one
\* circuit per length
RbCircs(nq) ==
    [s \in 1..NSeeds |->
        [k \in 1..Cardinality(lengths) |->
            [seed |-> s - 1, n_qubits |-> nq,
             length |-> CHOOSE l \in lengths :
                            Cardinality({j \in lengths : j <= l}) = k]]]

\* qiskit.transpile(rb_circ_seed, basis_gates=basis_gates)
transpile(circuits, basis) ==
    [k \in DOMAIN circuits |-> [circuit |-> circuits[k], basis_gates |-> basis]]

\* the results a job may come back with: for every circuit, the number of
\* shots that ended in the ground state
JobResults(circuits) == [DOMAIN circuits -> 0..Min(MaxCount, shots)]

Line(text, k) == [text |-> text, seed |-> k]

\* for rb_seed, rb_circ_seed in enumerate(rb_circs): the next seed, and
\* print('Compiling seed %d'%rb_seed)
ForNext ==
    /\ ex_pc = "for"
    /\ Len(result_list) < Len(rb_circs)
    /\ rb_seed' = Len(result_list)
    /\ stdout' = Append(stdout, Line("Compiling seed", Len(result_list)))
    /\ ex_pc' = "transpile"
    /\ UNCHANGED <<rb_circs, rb_circ_transpile, job, result_list, transpile_list,
                   alpha, epc>>
    /\ UNCHANGED <<calcVars, t1Vars, qpVars, rbVars>>

\* rb_circ_transpile = qiskit.transpile(...); print('Simulating seed %d'%rb_seed)
Transpile ==
    /\ ex_pc = "transpile"
    /\ rb_circ_transpile' = transpile(rb_circs[rb_seed + 1], basis_gates)
    /\ stdout' = Append(stdout, Line("Simulating seed", rb_seed))
    /\ ex_pc' = "execute"
    /\ UNCHANGED <<rb_circs, rb_seed, job, result_list, transpile_list, alpha, epc>>
    /\ UNCHANGED <<calcVars, t1Vars, qpVars, rbVars>>

\* job = qiskit.execute(rb_circ_transpile, ...): the job is with the backend
Execute ==
    /\ ex_pc = "execute"
    /\ job' = job \cup {[seed |-> rb_seed, circuits |-> rb_circ_transpile,
                         shots |-> shots]}
    /\ ex_pc' = "result"
    /\ UNCHANGED <<rb_circs, rb_seed, rb_circ_transpile, result_list,
                   transpile_list, stdout, alpha, epc>>
    /\ UNCHANGED <<calcVars, t1Vars, qpVars, rbVars>>

\* result_list.append(job), the job handed on without waiting for its result
JobResultNoWait ==
    /\ ex_pc = "result"
    /\ \E j \in job :
          /\ j.seed = rb_seed
          /\ \E r \in JobResults(j.circuits) :
                result_list' = Append(result_list, [seed |-> j.seed, counts |-> r])
    /\ ex_pc' = "append"
    /\ UNCHANGED <<rb_circs, rb_seed, rb_circ_transpile, job, transpile_list,
                   stdout, alpha, epc>>
    /\ UNCHANGED <<calcVars, t1Vars, qpVars, rbVars>>

\* result_list.append(job.result()): job.result() returns once the backend is
\* done with the job
JobResult ==
    /\ ex_pc = "result"
    /\ \E j \in job :
          /\ j.seed = rb_seed
          /\ job' = job \ {j}
          /\ \E r \in JobResults(j.circuits) :
                result_list' = Append(result_list, [seed |-> j.seed, counts |-> r])
    /\ ex_pc' = "append"
    /\ UNCHANGED <<rb_circs, rb_seed, rb_circ_transpile, transpile_list,
                   stdout, alpha, epc>>
    /\ UNCHANGED <<calcVars, t1Vars, qpVars, rbVars>>

\* job.result() raises (the job failed): nothing catches it, the cell ends
JobFails ==
    /\ ex_pc = "result"
    /\ \E j \in job :
          /\ j.seed = rb_seed
          /\ job' = job \ {j}
    /\ ex_pc' = "error"
    /\ UNCHANGED <<rb_circs, rb_seed, rb_circ_transpile, result_list,
                   transpile_list, stdout, alpha, epc>>
    /\ UNCHANGED <<calcVars, t1Vars, qpVars, rbVars>>

\* transpile_list.append(rb_circ_transpile)
AppendTranspile ==
    /\ ex_pc = "append"
    /\ transpile_list' = Append(transpile_list, rb_circ_transpile)
    /\ ex_pc' = "for"
    /\ UNCHANGED <<rb_circs, rb_seed, rb_circ_transpile, job, result_list,
                   stdout, alpha, epc>>
    /\ UNCHANGED <<calcVars, t1Vars, qpVars, rbVars>>

\* rb_circs is exhausted: print("Finished Simulating")
ForExhausted ==
    /\ ex_pc = "for"
    /\ Len(result_list) >= Len(rb_circs)
    /\ stdout' = Append(stdout, Line("Finished Simulating", rb_seed))
    /\ ex_pc' = "finished"
    /\ UNCHANGED <<rb_circs, rb_seed, rb_circ_transpile, job, result_list,
                   transpile_list, alpha, epc>>
    /\ UNCHANGED <<calcVars, t1Vars, qpVars, rbVars>>

\* the decay constants the fit of A * alpha^m + B may return
Alphas == UNION {{Frac(p, q) : p \in 0..q} : q \in 1..AlphaDen}

\* EPC = (2^n - 1)/2^n * (1 - alpha)
EPC(nq, a) == Frac((2^nq - 1) * (a.den - a.num), 2^nq * a.den)

\* rb.fitters.RBFitter(result_list, xdata): no rb_pattern is handed over, and
\* the fitter takes its default, [[0]]
RBFitter_rb_pattern == <<<<0>>>>

\* rbfit = rb.fitters.RBFitter(result_list, xdata): the fit of the results, and
\* the error per Clifford derived from alpha for the pattern of the fitter
FitRB ==
    /\ ex_pc = "finished"
    /\ \E a \in Alphas :
          /\ alpha' = a
          /\ epc' = EPC(Len(RBFitter_rb_pattern[1]), a)
    /\ ex_pc' = "fitted"
    /\ UNCHANGED <<rb_circs, rb_seed, rb_circ_transpile, job, result_list,
                   transpile_list, stdout>>
    /\ UNCHANGED <<calcVars, t1Vars, qpVars, rbVars>>

InitEx ==
    /\ counts = <<>>
    /\ prob_1 = None
    /\ IdleT1
    /\ IdleQP
    /\ rb_pc = "returned"
    /\ rb_pattern \in {1, 2}
    /\ seed = NSeeds - 1
    /\ circ = <<>>
    /\ elmnt = <<>>
    /\ rb_circ = <<>>
    /\ ex_pc = "for"
    /\ rb_circs = RbCircs(rb_pattern)
    /\ rb_seed = 0
    /\ rb_circ_transpile = <<>>
    /\ job = {}
    /\ result_list = <<>>
    /\ transpile_list = <<>>
    /\ stdout = <<>>
    /\ alpha = Frac(0, 1)
    /\ epc = Frac(0, 1)

NextEx ==
    \/ ForNext
    \/ Transpile
    \/ Execute
    \/ JobResult
    \/ JobFails
    \/ AppendTranspile
    \/ ForExhausted
    \/ FitRB

SpecEx == InitEx /\ [][NextEx]_vars

FLess(u, v) == u.num * v.den < v.num * u.den

\* C11: the error per Clifford is (2^n - 1)/2^n * (1 - alpha), n the number
\* of qubits of the design: (1 - alpha)/2 for one qubit and 3*(1 - alpha)/4
\* for two; it is 0 exactly when alpha is 1, it is smaller for every larger
\* alpha, and it lies between 0 and (2^n - 1)/2^n.
C11_ErrorPerClifford ==
    ex_pc = "fitted" =>
        /\ rb_pattern = 1 => 2 * epc.num * alpha.den = (alpha.den - alpha.num) * epc.den
        /\ rb_pattern = 2 =>
              4 * epc.num * alpha.den = 3 * (alpha.den - alpha.num) * epc.den
        /\ epc.num = 0 <=> alpha = Frac(1, 1)
        /\ \A a \in Alphas : FLess(alpha, a) => FLess(EPC(rb_pattern, a), epc)
        /\ FLeq(Frac(0, 1), epc)
        /\ FLeq(epc, Frac(2^rb_pattern - 1, 2^rb_pattern))

Compiled == {k \in 1..Len(stdout) : stdout[k].text = "Compiling seed"}
Simulated == {k \in 1..Len(stdout) : stdout[k].text = "Simulating seed"}

\* C12: the seeds are compiled in increasing order; a job holds the
\* transpiled circuits of its seed and is handed over after they were
\* transpiled; at most one job is with the backend, none while a seed is
\* being compiled; the result of a seed is appended before the next seed is
\* compiled; "Finished Simulating" is printed after the result of every seed
\* has been appended.
C12_SeedsRunOneAtATime ==
    /\ \A i, k \in Compiled : i < k => stdout[i].seed < stdout[k].seed
    /\ \A k \in Compiled : stdout[k].seed = Cardinality({i \in Compiled : i < k})
    /\ \A k \in 1..Len(result_list) : result_list[k].seed = k - 1
    /\ Cardinality(job) <= 1
    /\ \A j \in job :
          /\ j.seed = rb_seed
          /\ j.circuits = transpile(rb_circs[j.seed + 1], basis_gates)
          /\ \E k \in Simulated : stdout[k].seed = j.seed
          /\ Cardinality(Compiled) = Len(result_list) + 1
    /\ ex_pc = "transpile" => job = {} /\ Len(result_list) = rb_seed
    /\ Cardinality(Compiled) - Len(result_list) \in {0, 1}
    /\ \A k \in 1..Len(stdout) :
          stdout[k].text = "Finished Simulating" =>
              /\ Len(result_list) = Len(rb_circs)
              /\ job = {}
              /\ k = Len(stdout)

\* the second seed has been handed to the backend, the result of the first
\* is in the list
C12_Witness ==
    /\ ex_pc = "result"
    /\ rb_seed = 1
    /\ Len(result_list) = 1
    /\ Cardinality(job) = 1

====
